---- MODULE Spec2Model ----
(***************************************************************************)
(* Training-item model of the micro-learning application: the in-memory    *)
(* TrainingItem class, TrainingService, the LearningTree component and the *)
(* training_items table they read and write.                               *)
(*                                                                         *)
(* Timestamps are naturals; 0 stands for an unset (undefined / NULL)       *)
(* timestamp, the clock `now` starts at 1.  Item ids are 1..MaxItems and   *)
(* NoId stands for a missing parent_id (undefined / NULL).                 *)
(***************************************************************************)
EXTENDS Integers, Sequences, FiniteSets, TLC

\* ------------------------------------------------------------------ bounds
MaxTime == 2
MaxItems == 2
MaxInput == 3
MaxFetches == 2
MaxVersion == 2
MaxChildren == 3
MaxNodes == 3
MaxRecords == 2
MaxImport == 3
MaxUsers == 2
MaxMentions == 2
MaxNotifs == 2
MaxSubscriptions == 2
MaxInbox == 2

\* loadUserNotifications / handleNewNotification keep the latest 50
NotificationLimit == 50

\* order_index values a caller passes to createTrainingItem / moveTrainingItem
OrderInputs == {0, 1}

\* Percentages a caller may pass to an updateProgress entry point.
ProgressInputs == {-10, 0, 50, 100, 150}

\* TrainingStatus
NOT_STARTED == "not_started"
IN_PROGRESS == "in_progress"
COMPLETED == "completed"
PAUSED == "paused"
ARCHIVED == "archived"
TrainingStatus == {NOT_STARTED, IN_PROGRESS, COMPLETED, PAUSED, ARCHIVED}

\* A row that is not in the table.
Absent == [absent |-> TRUE]

\* Row ids (training_items.id) and the missing parent_id
Ids == 1..MaxItems
NoId == 0

VARIABLES
  \* ---- one training item followed through its progress updates
  item,      \* the in-memory TrainingItem object (a TreeNode's item)
  row,       \* its row in training_items, or Absent
  shown,     \* whether the item's TreeNode is in treeState.rootNodes
  now,       \* the clock read by new Date()
  lastOp,    \* the last call made: [op, p, ok]
  \* ---- the tree columns of the training_items table
  table,     \* id -> [parent_id, order_index, level], or Absent
  nextId,    \* the next id the table hands out (ids are never reused)
  storeOp,   \* the last statement run: [op, ok, n], n the rows affected
  \* ---- buildTrainingTree / flattenTree applied to one collection
  input,     \* the items handed to buildTrainingTree, in the order given
  forest,    \* the root list buildTrainingTree returned
  flat,      \* the list flattenTree returned
  stage,     \* "input", "built" or "flat"
  \* ---- the fetches behind trainingItems$
  signedIn,     \* whether currentUserSubject holds a user
  dataVersion,  \* the contents of training_items, named by a version number
  fetches,      \* seq -> [state, value, ok]: the getTrainingItems calls made
  subject,      \* what trainingItemsSubject holds: [value, from]
  lastResolved, \* the seq of the fetch delivered last, 0 when none was
  \* ---- one in-memory TrainingItem and its children list
  parentItem,   \* [id, level, children]; a child is [id, parent_id, level, order_index]
  childOp,      \* the last call made on it: [op, id, n], n the children before it
  \* ---- one in-memory tree of TrainingItems and its aggregated progress
  progressTree, \* node -> [parent_id, progress_percentage]; node 1 is the root
  overall,      \* node -> [called, value]: what getOverallProgress() returned
  \* ---- one in-memory tree of TrainingItems and its total estimated time
  timeTree, \* node -> [parent_id, estimated_duration_minutes]; node 1 is the root
  totalTime,\* node -> [called, value]: what getTotalEstimatedTime() returned
  \* ---- getUserStats over the records of one user
  userRecords, \* the user's rows of training_items: [id, parent_id, order_index, status, progress_percentage]
  stats,\* what getUserStats emitted: [called, fetched, totalItems, completedItems, inProgressItems, completionRate]
  \* ---- the TreeNodes LearningTree builds from the forest trainingItems$ emits
  treeNodes, \* nodeMap: item id -> [parent, depth, children], parent and children as item ids
  rootNodes,\* treeState.rootNodes, as item ids
  \* ---- importTrainingItems and processCommentNotifications: one call of each
  importRun, \* [items, sent, creations, results, completed]: one importTrainingItems(items) call
  importObserver, \* [emissions, complete]: what the returned Observable delivered
  commentRun, \* [comment, sent, inserts, results, completed]: one processCommentNotifications(comment) call
  commentObserver,\* [emissions, complete]: what the returned Observable delivered
  \* ---- NotificationService and the NotificationComponent panel of one user
  notifRows, \* the user's rows of notifications: id -> absent, unread, read or deleted
  subscriptions, \* the realtime subscriptions opened so far, one per currentUser$ emission
  loads, \* emission -> [state, rows]: the select of loadUserNotifications
  inbox, \* subscription -> the payloads on their way to its callback
  notificationsSubject, \* the list NotificationService holds: [id, read] each
  unreadCountSubject, \* the count NotificationService holds
  panel \* NotificationComponent's signals: [notifications, unreadCount]

nodeVars == <<item, row, shown, now, lastOp>>
storeVars == <<table, nextId, storeOp>>
buildVars == <<input, forest, flat, stage>>
fetchVars == <<signedIn, dataVersion, fetches, subject, lastResolved>>
childVars == <<parentItem, childOp>>
aggVars == <<progressTree, overall>>
timeVars == <<timeTree, totalTime>>
statsVars == <<userRecords, stats>>
viewVars == <<treeNodes, rootNodes>>
bulkVars == <<importRun, importObserver, commentRun, commentObserver>>
notifVars == <<notifRows, subscriptions, loads, inbox, notificationsSubject, unreadCountSubject, panel>>
vars == <<nodeVars, storeVars, buildVars, fetchVars, childVars, aggVars, timeVars, statsVars, viewVars, bulkVars, notifVars>>

\* What the actions on one group of variables leave alone.
outsideNode == <<storeVars, buildVars, fetchVars, childVars, aggVars, timeVars, statsVars, viewVars, bulkVars, notifVars>>
outsideStore == <<nodeVars, buildVars, fetchVars, childVars, aggVars, timeVars, statsVars, viewVars, bulkVars, notifVars>>
outsideBuild == <<nodeVars, storeVars, fetchVars, childVars, aggVars, timeVars, statsVars, viewVars, bulkVars, notifVars>>
outsideFetch == <<nodeVars, storeVars, buildVars, childVars, aggVars, timeVars, statsVars, viewVars, bulkVars, notifVars>>
outsideChild == <<nodeVars, storeVars, buildVars, fetchVars, aggVars, timeVars, statsVars, viewVars, bulkVars, notifVars>>
outsideAgg == <<nodeVars, storeVars, buildVars, fetchVars, childVars, timeVars, statsVars, viewVars, bulkVars, notifVars>>
outsideTime == <<nodeVars, storeVars, buildVars, fetchVars, childVars, aggVars, statsVars, viewVars, bulkVars, notifVars>>
outsideStats == <<nodeVars, storeVars, buildVars, fetchVars, childVars, aggVars, timeVars, viewVars, bulkVars, notifVars>>
outsideView == <<nodeVars, storeVars, buildVars, fetchVars, childVars, aggVars, timeVars, statsVars, bulkVars, notifVars>>
outsideBuildView == <<nodeVars, storeVars, fetchVars, childVars, aggVars, timeVars, statsVars, bulkVars, notifVars>>
outsideBulk == <<nodeVars, storeVars, buildVars, fetchVars, childVars, aggVars, timeVars, statsVars, viewVars, notifVars>>
outsideNotif == <<nodeVars, storeVars, buildVars, fetchVars, childVars, aggVars, timeVars, statsVars, viewVars, bulkVars>>

\* ------------------------------------------------------------ progress
\* (variant: the upper bound left out, Math.max(0, p))
Clamp_NoUpper(p) == IF p < 0 THEN 0 ELSE p

\* Math.max(0, Math.min(100, p))
Clamp(p) == IF p > 100 THEN 100 ELSE IF p < 0 THEN 0 ELSE p

\* A TrainingItem as createNewItem / the constructor defaults make it.
FreshItem ==
  [progress_percentage |-> 0, status |-> NOT_STARTED,
   completed_at |-> 0, last_practiced_at |-> 0]

\* (variant: the completion test written `> 100`)
ItemUpdateProgress_OffByOne(it, p, t) ==
  LET a == [it EXCEPT !.progress_percentage = Clamp(p), !.last_practiced_at = t]
  IN IF p > 100 /\ it.status # COMPLETED
       THEN [a EXCEPT !.status = COMPLETED, !.completed_at = t]
       ELSE IF p > 0 /\ it.status = NOT_STARTED
              THEN [a EXCEPT !.status = IN_PROGRESS]
              ELSE a

\* TrainingItem.updateProgress(percentage) at time t
ItemUpdateProgress(it, p, t) ==
  LET a == [it EXCEPT !.progress_percentage = Clamp(p), !.last_practiced_at = t]
  IN IF p >= 100 /\ it.status # COMPLETED
       THEN [a EXCEPT !.status = COMPLETED, !.completed_at = t]
       ELSE IF p > 0 /\ it.status = NOT_STARTED
              THEN [a EXCEPT !.status = IN_PROGRESS]
              ELSE a

\* (variant: the second test written `>= 0`)
ServiceProgressUpdates_ZeroStarts(p, t) ==
  LET base == [progress_percentage |-> Clamp(p), last_practiced_at |-> t]
  IN IF p >= 100
       THEN base @@ [status |-> COMPLETED, completed_at |-> t]
       ELSE IF p >= 0 THEN base @@ [status |-> IN_PROGRESS] ELSE base

\* The partial `updates` object TrainingService.updateProgress builds.
ServiceProgressUpdates(p, t) ==
  LET base == [progress_percentage |-> Clamp(p), last_practiced_at |-> t]
  IN IF p >= 100
       THEN base @@ [status |-> COMPLETED, completed_at |-> t]
       ELSE IF p > 0 THEN base @@ [status |-> IN_PROGRESS] ELSE base

\* The partial object LearningTree.updateProgress sends after it has called
\* node.item.updateProgress: the raw percentage and the item's fields; an
\* undefined completed_at is dropped when the object is serialised.
TreeProgressUpdates(it, p) ==
  LET base == [progress_percentage |-> p, status |-> it.status,
               last_practiced_at |-> it.last_practiced_at]
  IN IF it.completed_at # 0
       THEN base @@ [completed_at |-> it.completed_at]
       ELSE base

\* training_items CHECK (progress_percentage >= 0 AND progress_percentage <= 100)
\* and CHECK (status IN (...))
RowAccepted(r) ==
  /\ r.progress_percentage >= 0 /\ r.progress_percentage <= 100
  /\ r.status \in TrainingStatus

\* UPDATE training_items SET <updates> WHERE id = ...: the row with the given
\* columns replaced.
ApplyUpdates(r, updates) ==
  [f \in DOMAIN r |-> IF f \in DOMAIN updates THEN updates[f] ELSE r[f]]

\* SupabaseService.update(...).single(): succeeds when the request gets
\* through (net), the row exists and the new row passes the CHECKs.
UpdateSucceeds(r, updates, net) ==
  /\ net
  /\ r # Absent
  /\ RowAccepted(ApplyUpdates(r, updates))

\* The row after TrainingService.updateTrainingItem(id, updates); on an error
\* the service maps to null and the table is as before.
RowAfterUpdate(r, updates, net) ==
  IF UpdateSucceeds(r, updates, net) THEN ApplyUpdates(r, updates) ELSE r

\* ------------------------------------------------------------ actions
Tick ==
  /\ now < MaxTime
  /\ now' = now + 1
  /\ lastOp' = [op |-> "tick", p |-> 0, ok |-> TRUE]
  /\ UNCHANGED <<item, row, shown, outsideNode>>

\* item.updateProgress(p) called directly on the in-memory object
ModelUpdateProgress ==
  \E p \in ProgressInputs :
    /\ item' = ItemUpdateProgress(item, p, now)
    /\ lastOp' = [op |-> "TrainingItem.updateProgress", p |-> p, ok |-> TRUE]
    /\ UNCHANGED <<row, shown, now, outsideNode>>

\* TrainingService.updateProgress(id, p)
ServiceUpdateProgress ==
  \E p \in ProgressInputs, net \in BOOLEAN :
    LET updates == ServiceProgressUpdates(p, now)
    IN /\ row' = RowAfterUpdate(row, updates, net)
       /\ lastOp' = [op |-> "TrainingService.updateProgress", p |-> p,
                     ok |-> UpdateSucceeds(row, updates, net)]
       /\ UNCHANGED <<item, shown, now, outsideNode>>

\* LearningTree.updateProgress(node, p): the in-memory item is updated first,
\* then the update is sent; both callbacks leave the item as it is.
TreeUpdateProgress ==
  \E p \in ProgressInputs, net \in BOOLEAN :
    LET it == ItemUpdateProgress(item, p, now)
        updates == TreeProgressUpdates(it, p)
    IN /\ shown
       /\ item' = it
       /\ row' = RowAfterUpdate(row, updates, net)
       /\ lastOp' = [op |-> "LearningTree.updateProgress", p |-> p,
                     ok |-> UpdateSucceeds(row, updates, net)]
       /\ UNCHANGED <<shown, now, outsideNode>>

\* SupabaseService.delete: DELETE ... WHERE id = ...; an error is thrown only
\* when the request fails (deleting no row is not an error).
RowAfterDelete(r, net) == IF net THEN Absent ELSE r

\* LearningTree.deleteNode(node), confirmed by the user: deleteTrainingItem
\* maps a store error to `false`, and the `next` callback removes the node
\* from the displayed tree without looking at the value it is given.
ShownAfterDelete(ok) == FALSE

DeleteNode ==
  \E net \in BOOLEAN :
    /\ shown
    /\ row' = RowAfterDelete(row, net)
    /\ shown' = ShownAfterDelete(net)
    /\ lastOp' = [op |-> "LearningTree.deleteNode", p |-> 0, ok |-> net]
    /\ UNCHANGED <<item, now, outsideNode>>

\* TrainingService.updateTrainingItem(id, {status: s}): an explicit status
\* change.
UpdateStatus ==
  \E s \in TrainingStatus, net \in BOOLEAN :
    LET updates == [status |-> s]
    IN /\ row' = RowAfterUpdate(row, updates, net)
       /\ lastOp' = [op |-> "TrainingService.updateTrainingItem", p |-> 0,
                     ok |-> UpdateSucceeds(row, updates, net)]
       /\ UNCHANGED <<item, shown, now, outsideNode>>

\* A fetch delivered to LearningTree.loadTrainingItems: the tree is rebuilt
\* from new TrainingItem objects made of the rows.
Reload ==
  /\ row # Absent
  /\ item' = row
  /\ shown' = TRUE
  /\ lastOp' = [op |-> "reload", p |-> 0, ok |-> TRUE]
  /\ UNCHANGED <<row, now, outsideNode>>

\* ------------------------------------------------------------ table
Present(t, i) == i \in Ids /\ t[i] # Absent

\* Whether a is reached from i by following parent_id, in at most `fuel` steps.
RECURSIVE ReachesUp(_, _, _, _)
ReachesUp(t, i, a, fuel) ==
  /\ fuel > 0
  /\ Present(t, i)
  /\ t[i].parent_id # NoId
  /\ \/ t[i].parent_id = a
     \/ ReachesUp(t, t[i].parent_id, a, fuel - 1)

\* The rows below a: those that reference it through parent_id, transitively.
Descendants(t, a) == {i \in Ids : ReachesUp(t, i, a, MaxItems)}

\* parent_id UUID REFERENCES public.training_items(id)
ForeignKeyHolds(t, parent) == parent = NoId \/ Present(t, parent)

\* level as LearningTree.createNewItem sets it
CreateNewItemLevel(parent) == IF parent = NoId THEN 0 ELSE 1

\* level as RoadmapImport.convertToTrainingItems sets it (depth)
ImportLevel(t, parent) ==
  IF parent = NoId \/ ~Present(t, parent) THEN 0 ELSE t[parent].level + 1

\* ON DELETE CASCADE: deleting the rows in `gone` deletes every row whose
\* parent_id references one of them, and so on until no row references a
\* deleted one.
RECURSIVE CascadeFrom(_, _)
CascadeFrom(t, gone) ==
  LET refs == {i \in Ids \ gone : Present(t, i) /\ t[i].parent_id \in gone}
  IN IF refs = {} THEN gone ELSE CascadeFrom(t, gone \cup refs)

\* (variant: ON DELETE CASCADE left out of the parent_id reference, the
\* referencing rows stay)
TableAfterDelete_NoCascade(t, id) ==
  [i \in Ids |-> IF i = id THEN Absent ELSE t[i]]

\* DELETE FROM training_items WHERE id = ...; parent_id ... ON DELETE CASCADE
TableAfterDelete(t, id) ==
  [i \in Ids |-> IF i \in CascadeFrom(t, {id}) THEN Absent ELSE t[i]]

\* The `updates` object of TrainingService.moveTrainingItem: a null
\* newParentId becomes `undefined`, which is not sent.
MoveUpdates(newParentId, newOrderIndex) ==
  IF newParentId = NoId
    THEN [order_index |-> newOrderIndex]
    ELSE [parent_id |-> newParentId, order_index |-> newOrderIndex]

\* SupabaseService.update on the tree columns: the row must exist and the new
\* parent_id must reference a row.
TreeUpdateSucceeds(t, id, updates, net) ==
  /\ net
  /\ Present(t, id)
  /\ ForeignKeyHolds(t, ApplyUpdates(t[id], updates).parent_id)

\* TrainingService.createTrainingItem(item): INSERT ... RETURNING; the id is
\* assigned by the table.
CreateTrainingItem ==
  \E parent \in {NoId} \cup Ids, o \in OrderInputs, net \in BOOLEAN :
    \E level \in {CreateNewItemLevel(parent), ImportLevel(table, parent)} :
      LET ok == net /\ ForeignKeyHolds(table, parent)
      IN /\ nextId <= MaxItems
         /\ table' = IF ok
                       THEN [table EXCEPT ![nextId] =
                              [parent_id |-> parent, order_index |-> o, level |-> level]]
                       ELSE table
         /\ nextId' = IF ok THEN nextId + 1 ELSE nextId
         /\ storeOp' = [op |-> "createTrainingItem", ok |-> ok,
                        n |-> IF ok THEN 1 ELSE 0]
         /\ UNCHANGED outsideStore

\* TrainingService.moveTrainingItem(itemId, newParentId, newOrderIndex)
MoveTrainingItem ==
  \E id \in Ids, np \in {NoId} \cup Ids, o \in OrderInputs, net \in BOOLEAN :
    LET updates == MoveUpdates(np, o)
        ok == TreeUpdateSucceeds(table, id, updates, net)
    IN /\ table' = IF ok THEN [table EXCEPT ![id] = ApplyUpdates(table[id], updates)]
                         ELSE table
       /\ storeOp' = [op |-> "moveTrainingItem", ok |-> ok,
                      n |-> IF ok THEN 1 ELSE 0]
       /\ UNCHANGED <<nextId, outsideStore>>

\* TrainingService.deleteTrainingItem(id)
DeleteTrainingItem ==
  \E id \in Ids, net \in BOOLEAN :
    LET after == IF net THEN TableAfterDelete(table, id) ELSE table
    IN /\ table' = after
       /\ storeOp' = [op |-> "deleteTrainingItem", ok |-> net,
                      n |-> Cardinality({i \in Ids : table[i] # after[i]})]
       /\ UNCHANGED <<nextId, outsideStore>>

\* ------------------------------------------------------- tree assembly
\* An id no item of an input collection has (a parent outside the collection).
OutsideId == MaxInput + 1

\* The collections handed to buildTrainingTree: the k-th item carries id k
\* (ids are opaque, so any collection of distinct ids is one of these up to
\* renaming); parent_id is missing, an id of the collection or an outside id.
InputCollections ==
  UNION {[1..n -> [parent_id : (0..MaxInput) \cup {OutsideId},
                   order_index : OrderInputs]] : n \in 0..MaxInput}

InputItems(c) ==
  [k \in 1..Len(c) |->
     [id |-> k, parent_id |-> c[k].parent_id, order_index |-> c[k].order_index]]

ItemIds(items) == {items[k].id : k \in 1..Len(items)}

\* itemMap.get(id) / nodeMap.get(id).item
ItemWithId(items, id) == items[CHOOSE k \in 1..Len(items) : items[k].id = id]

\* (variant: an element goes before the elements of equal order_index)
RECURSIVE InsertSorted_Unstable(_, _)
InsertSorted_Unstable(s, x) ==
  IF s = <<>>
    THEN <<x>>
    ELSE IF Head(s).item.order_index < x.item.order_index
           THEN <<Head(s)>> \o InsertSorted_Unstable(Tail(s), x)
           ELSE <<x>> \o s

\* Array.prototype.sort((a, b) => a.order_index - b.order_index) on tree
\* nodes: ascending, and stable (equal keys keep their order).
RECURSIVE InsertSorted(_, _)
InsertSorted(s, x) ==
  IF s = <<>>
    THEN <<x>>
    ELSE IF Head(s).item.order_index <= x.item.order_index
           THEN <<Head(s)>> \o InsertSorted(Tail(s), x)
           ELSE <<x>> \o s

RECURSIVE SortByOrderIndex(_)
SortByOrderIndex(s) ==
  IF s = <<>>
    THEN <<>>
    ELSE InsertSorted(SortByOrderIndex(SubSeq(s, 1, Len(s) - 1)), s[Len(s)])

\* The items pushed to rootItems: those whose parent_id is falsy.
RootItems(items) == SelectSeq(items, LAMBDA it : it.parent_id = NoId)

\* The items pushed to the children of the item with id pid, in input order.
\* An item whose parent_id is set but is no key of itemMap is pushed nowhere.
ChildItems(items, pid) ==
  SelectSeq(items, LAMBDA it : it.parent_id # NoId /\ it.parent_id = pid)

\* An item with its children linked and sorted, as sortItems leaves it.
RECURSIVE BuildSubtree(_, _)
BuildSubtree(items, it) ==
  LET kids == ChildItems(items, it.id)
  IN [item |-> it,
      children |-> SortByOrderIndex(
                     [k \in 1..Len(kids) |-> BuildSubtree(items, kids[k])])]

\* TrainingService.buildTrainingTree(items) (Roadmap.buildTree is the same
\* algorithm on roadmap items)
BuildTrainingTree(items) ==
  LET roots == RootItems(items)
  IN SortByOrderIndex([k \in 1..Len(roots) |-> BuildSubtree(items, roots[k])])

\* (variant: an item pushed after its children)
RECURSIVE FlattenTree_PostOrder(_)
FlattenTree_PostOrder(nodes) ==
  IF nodes = <<>>
    THEN <<>>
    ELSE FlattenTree_PostOrder(Head(nodes).children) \o <<Head(nodes).item>>
           \o FlattenTree_PostOrder(Tail(nodes))

\* TrainingService.flattenTree(items); DashboardComponent.flattenTrainingItems
\* is the same function.
RECURSIVE FlattenTree(_)
FlattenTree(nodes) ==
  IF nodes = <<>>
    THEN <<>>
    ELSE <<Head(nodes).item>> \o FlattenTree(Head(nodes).children)
           \o FlattenTree(Tail(nodes))

BuildTree ==
  /\ stage = "input"
  /\ forest' = BuildTrainingTree(input)
  /\ stage' = "built"
  /\ UNCHANGED <<input, flat, outsideBuild>>

Flatten ==
  /\ stage = "built"
  /\ flat' = FlattenTree(forest)
  /\ stage' = "flat"
  /\ UNCHANGED <<input, forest, outsideBuild>>

\* ------------------------------------------------------------- fetches
FetchIds == 1..MaxFetches

\* The empty list: the BehaviorSubject's first value, what sign-out emits and
\* what getTrainingItems maps a failed select to.
EmptyList == 0

\* The forest built from the table contents of version v.
ForestOf(v) == v + 1

Started == {q \in FetchIds : fetches[q].state # "none"}

\* (variant: a delivery older than the one held is discarded)
SubjectAfterDelivery_KeepNewer(held, q, value) ==
  IF q < held.from THEN held ELSE [value |-> value, from |-> q]

\* this.trainingItemsSubject.next(items) in the subscriber of fetch q
SubjectAfterDelivery(held, q, value) == [value |-> value, from |-> q]

\* getTrainingItems(user.id).subscribe(...): the select is sent
StartFetch ==
  LET q == Cardinality(Started) + 1
  IN /\ q \in FetchIds
     /\ fetches' = [fetches EXCEPT ![q] =
                     [state |-> "sent", value |-> EmptyList, ok |-> TRUE]]

\* loadUserProfile: currentUserSubject.next(appUser); the subscriber in
\* loadUserTrainingItems starts a fetch.
UserEmitted ==
  /\ signedIn' = TRUE
  /\ StartFetch
  /\ UNCHANGED <<dataVersion, subject, lastResolved, outsideFetch>>

\* TrainingService.refreshTrainingItems()
RefreshTrainingItems ==
  /\ signedIn
  /\ StartFetch
  /\ UNCHANGED <<signedIn, dataVersion, subject, lastResolved, outsideFetch>>

\* The table runs the select of a fetch: the rows of this moment, or an
\* error, which getTrainingItems' catchError turns into the empty list.
ServeFetch ==
  \E q \in FetchIds, net \in BOOLEAN :
    /\ fetches[q].state = "sent"
    /\ fetches' = [fetches EXCEPT ![q] =
                     [state |-> "served", ok |-> net,
                      value |-> IF net THEN ForestOf(dataVersion) ELSE EmptyList]]
    /\ UNCHANGED <<signedIn, dataVersion, subject, lastResolved, outsideFetch>>

\* The response of a fetch reaches its subscriber.
DeliverFetch ==
  \E q \in FetchIds :
    /\ fetches[q].state = "served"
    /\ fetches' = [fetches EXCEPT ![q].state = "done"]
    /\ subject' = SubjectAfterDelivery(subject, q, fetches[q].value)
    /\ lastResolved' = q
    /\ UNCHANGED <<signedIn, dataVersion, outsideFetch>>

\* Any successful insert, update or delete on training_items.
TableChanged ==
  /\ dataVersion < MaxVersion
  /\ dataVersion' = dataVersion + 1
  /\ UNCHANGED <<signedIn, fetches, subject, lastResolved, outsideFetch>>

\* signOut's tap, or onAuthStateChange without a session:
\* currentUserSubject.next(null); the subscriber in loadUserTrainingItems
\* emits the empty list. Fetches in flight are not cancelled.
SignOut ==
  /\ signedIn' = FALSE
  /\ subject' = [value |-> EmptyList, from |-> 0]
  /\ UNCHANGED <<dataVersion, fetches, lastResolved, outsideFetch>>

\* ------------------------------------------------------- children list
\* The ids of the items that can be children, and the id of the parent.
ChildIds == 1..MaxChildren
ParentId == MaxChildren + 1

\* level values an item can carry before it is added
LevelInputs == {0, 1}

\* (variant: the new child numbered from 1)
AddChildResult_OneBased(p, child) ==
  LET c == [child EXCEPT !.parent_id = p.id,
                         !.level = p.level + 1,
                         !.order_index = Len(p.children) + 1]
  IN [p EXCEPT !.children = Append(p.children, c)]

\* TrainingItem.addChild(child): the parent after the call, the child
\* being the last element of its children.
AddChildResult(p, child) ==
  LET c == [child EXCEPT !.parent_id = p.id,
                         !.level = p.level + 1,
                         !.order_index = Len(p.children)]
  IN [p EXCEPT !.children = Append(p.children, c)]

\* (variant: the remaining children keep their order_index)
RemoveChildResult_NoReorder(p, childId) ==
  [p EXCEPT !.children = SelectSeq(p.children, LAMBDA c : c.id # childId)]

\* TrainingItem.removeChild(childId): filter, then order_index = index
RemoveChildResult(p, childId) ==
  LET kept == SelectSeq(p.children, LAMBDA c : c.id # childId)
  IN [p EXCEPT !.children =
        [k \in 1..Len(kept) |-> [kept[k] EXCEPT !.order_index = k - 1]]]

ChildIdsOf(p) == {p.children[k].id : k \in 1..Len(p.children)}

\* parent.addChild(child) with an item that is not yet among the children
AddChild ==
  \E id \in ChildIds \ ChildIdsOf(parentItem),
     pp \in {NoId, ParentId}, l \in LevelInputs, o \in OrderInputs :
    LET child == [id |-> id, parent_id |-> pp, level |-> l, order_index |-> o]
    IN /\ parentItem' = AddChildResult(parentItem, child)
       /\ childOp' = [op |-> "addChild", id |-> id, n |-> Len(parentItem.children)]
       /\ UNCHANGED outsideChild

\* parent.removeChild(childId), with the id of a child or of no child
RemoveChild ==
  \E id \in ChildIds :
    /\ parentItem' = RemoveChildResult(parentItem, id)
    /\ childOp' = [op |-> "removeChild", id |-> id, n |-> Len(parentItem.children)]
    /\ UNCHANGED outsideChild

\* The children lists an item can be constructed with (data.children, or
\* the lists buildTrainingTree pushes into): distinct ids, any order_index.
ChildLists ==
  UNION {{c \in [1..n -> [id : ChildIds, order_index : OrderInputs]] :
            \A j, k \in 1..n : c[j].id = c[k].id => j = k} : n \in 0..MaxChildren}

\* -------------------------------------------------- aggregated progress
\* progress_percentage values of the items of a tree
ProgressValues == {0, 50, 100}

\* getOverallProgress returns a JavaScript number; the quotients are kept
\* exact here, as fractions [num, den] in lowest terms with den > 0.
RECURSIVE Gcd(_, _)
Gcd(a, b) == IF b = 0 THEN a ELSE Gcd(b, a % b)

Fraction(n, d) ==
  LET g == Gcd(n, d)
  IN IF g = 0 THEN [num |-> 0, den |-> 1] ELSE [num |-> n \div g, den |-> d \div g]

Whole(n) == [num |-> n, den |-> 1]

\* a + b and a / k
Plus(a, b) == Fraction(a.num * b.den + b.num * a.den, a.den * b.den)
DividedBy(a, k) == Fraction(a.num, a.den * k)

\* this.children of node i, in list order
ChildrenOfNode(t, i) ==
  SelectSeq([j \in 1..Len(t) |-> j], LAMBDA j : t[j].parent_id = i)

\* The nodes of the subtree of i.
RECURSIVE SubtreeNodes(_, _)
SubtreeNodes(t, i) ==
  LET kids == ChildrenOfNode(t, i)
  IN {i} \cup UNION {SubtreeNodes(t, kids[k]) : k \in 1..Len(kids)}

RECURSIVE SumProgress(_, _)
SumProgress(t, nodes) ==
  IF nodes = {}
    THEN 0
    ELSE LET i == CHOOSE n \in nodes : TRUE
         IN t[i].progress_percentage + SumProgress(t, nodes \ {i})

\* (variant: the mean over all the items of the subtree)
OverallProgress_BySubtreeSize(t, i) ==
  LET nodes == SubtreeNodes(t, i)
  IN Fraction(SumProgress(t, nodes), Cardinality(nodes))

\* TrainingItem.getOverallProgress() of node i; ReduceOverall is the
\* children.reduce((sum, child) => sum + child.getOverallProgress(), 0).
RECURSIVE OverallProgress(_, _)
RECURSIVE ReduceOverall(_, _)
ReduceOverall(t, kids) ==
  IF kids = <<>>
    THEN Whole(0)
    ELSE Plus(ReduceOverall(t, SubSeq(kids, 1, Len(kids) - 1)),
              OverallProgress(t, kids[Len(kids)]))

OverallProgress(t, i) ==
  LET kids == ChildrenOfNode(t, i)
  IN IF Len(kids) = 0
       THEN Whole(t[i].progress_percentage)
       ELSE LET totalWeight == Len(kids) + 1
                childrenProgress == ReduceOverall(t, kids)
            IN DividedBy(Plus(Whole(t[i].progress_percentage), childrenProgress),
                         totalWeight)

NotCalled == [called |-> FALSE, value |-> Whole(0)]

\* node.getOverallProgress() called on one item of the tree
GetOverallProgress ==
  \E i \in 1..Len(progressTree) :
    /\ overall' = [overall EXCEPT ![i] =
                     [called |-> TRUE, value |-> OverallProgress(progressTree, i)]]
    /\ UNCHANGED <<progressTree, outsideAgg>>

\* The trees of up to MaxNodes items: the parent of an item is an earlier one.
ProgressTrees ==
  UNION {{t \in [1..n -> [parent_id : 0..n, progress_percentage : ProgressValues]] :
            /\ t[1].parent_id = NoId
            /\ \A i \in 2..n : t[i].parent_id \in 1..(i - 1)} : n \in 1..MaxNodes}

\* ------------------------------------------------- total estimated time
\* estimated_duration_minutes values of the items of a tree
DurationValues == {30, 60}

\* (variant: the children's own minutes added, not their totals)
TotalEstimatedTime_ChildrenOnly(t, i) ==
  LET kids == ChildrenOfNode(t, i)
      minutes == [k \in 1..Len(kids) |-> t[kids[k]].estimated_duration_minutes]
      RECURSIVE sum(_)
      sum(s) == IF s = <<>> THEN 0 ELSE Head(s) + sum(Tail(s))
  IN t[i].estimated_duration_minutes + sum(minutes)

\* TrainingItem.getTotalEstimatedTime() of node i; ReduceTotal is the
\* children.reduce((sum, child) => sum + child.getTotalEstimatedTime(), 0).
RECURSIVE TotalEstimatedTime(_, _)
RECURSIVE ReduceTotal(_, _)
ReduceTotal(t, kids) ==
  IF kids = <<>>
    THEN 0
    ELSE ReduceTotal(t, SubSeq(kids, 1, Len(kids) - 1))
           + TotalEstimatedTime(t, kids[Len(kids)])

TotalEstimatedTime(t, i) ==
  t[i].estimated_duration_minutes + ReduceTotal(t, ChildrenOfNode(t, i))

TimeNotCalled == [called |-> FALSE, value |-> 0]

\* node.getTotalEstimatedTime() called on one item of the tree
GetTotalEstimatedTime ==
  \E i \in 1..Len(timeTree) :
    /\ totalTime' = [totalTime EXCEPT ![i] =
                       [called |-> TRUE, value |-> TotalEstimatedTime(timeTree, i)]]
    /\ UNCHANGED <<timeTree, outsideTime>>

\* The trees of up to MaxNodes items: the parent of an item is an earlier one.
TimeTrees ==
  UNION {{t \in [1..n -> [parent_id : 0..n, estimated_duration_minutes : DurationValues]] :
            /\ t[1].parent_id = NoId
            /\ \A i \in 2..n : t[i].parent_id \in 1..(i - 1)} : n \in 1..MaxNodes}

\* ------------------------------------------------------------ statistics
\* (variant: the progress test left out)
isCompleted_StatusOnly(it) == it.status = COMPLETED

\* TrainingItem.isCompleted()
isCompleted(it) == it.status = COMPLETED \/ it.progress_percentage >= 100

\* a / b as JavaScript computes it for counts: NaN for 0 / 0
NaN == [num |-> 0, den |-> 0]
Quotient(a, b) == IF b = 0 THEN NaN ELSE Fraction(a, b)

\* (variant: the rate computed without the test on the length)
UserStats_NoGuard(flatItems) ==
  LET completedItems == SelectSeq(flatItems, isCompleted)
      inProgressItems == SelectSeq(flatItems, LAMBDA it : it.status = IN_PROGRESS)
  IN [totalItems |-> Len(flatItems),
      completedItems |-> Len(completedItems),
      inProgressItems |-> Len(inProgressItems),
      completionRate |->
        LET q == Quotient(Len(completedItems), Len(flatItems))
        IN IF q = NaN THEN NaN ELSE Fraction(q.num * 100, q.den)]

\* The object the map of getUserStats returns for the flattened forest
\* (the counts and the rate; the hours and the skill counts are left out).
UserStats(flatItems) ==
  LET completedItems == SelectSeq(flatItems, isCompleted)
      inProgressItems == SelectSeq(flatItems, LAMBDA it : it.status = IN_PROGRESS)
  IN [totalItems |-> Len(flatItems),
      completedItems |-> Len(completedItems),
      inProgressItems |-> Len(inProgressItems),
      completionRate |->
        IF Len(flatItems) > 0
          THEN LET q == Quotient(Len(completedItems), Len(flatItems))
               IN Fraction(q.num * 100, q.den)
          ELSE Whole(0)]

\* What getTrainingItems emits: the forest built from the rows, or the empty
\* list when the select fails (catchError).
FetchedForest(records, net) == IF net THEN BuildTrainingTree(records) ELSE <<>>

\* TrainingService.getUserStats(userId)
GetUserStats ==
  \E net \in BOOLEAN :
    /\ stats' = [called |-> TRUE, fetched |-> net]
                  @@ UserStats(FlattenTree(FetchedForest(userRecords, net)))
    /\ UNCHANGED <<userRecords, outsideStats>>

\* An id that no record of the user has (a parent among another user's rows).
OtherUsersId == MaxRecords + 1

StatStatuses == {NOT_STARTED, IN_PROGRESS, COMPLETED}
StatProgress == {50, 100}

\* The rows a user can have: the k-th has id k; a parent_id is missing, an
\* id of the user's rows or another id.
UserRecordLists ==
  UNION {[1..n -> [parent_id : (0..n) \cup {OtherUsersId},
                   status : StatStatuses,
                   progress_percentage : StatProgress]] : n \in 0..MaxRecords}

UserRecords(c) ==
  [k \in 1..Len(c) |->
     [id |-> k, parent_id |-> c[k].parent_id, order_index |-> k - 1,
      status |-> c[k].status, progress_percentage |-> c[k].progress_percentage]]

NoStats ==
  [called |-> FALSE, fetched |-> FALSE, totalItems |-> 0, completedItems |-> 0,
   inProgressItems |-> 0, completionRate |-> Whole(0)]

\* ------------------------------------------------------------ tree view
\* The array trainingItems$ emits: the root TrainingItems of the forest
\* (their descendants hang on their `children`).
EmittedItems(f) == [k \in 1..Len(f) |-> f[k].item]

\* A TreeNode as the first loop of buildTreeStructure makes it.
NewTreeNode == [parent |-> NoId, depth |-> 0, children |-> <<>>]

\* parent.children.sort(...) after a push, and rootNodes.sort(...): the ids
\* ordered by the order_index of their items, stable.
SortedIds(items, ids) ==
  LET asNodes == [k \in 1..Len(ids) |-> [item |-> ItemWithId(items, ids[k])]]
      sorted == SortByOrderIndex(asNodes)
  IN [k \in 1..Len(sorted) |-> sorted[k].item.id]

\* The second loop of buildTreeStructure from the k-th item on.
RECURSIVE LinkTreeNodes(_, _, _, _)
LinkTreeNodes(items, k, nodes, roots) ==
  IF k > Len(items)
    THEN [nodes |-> nodes, roots |-> roots]
    ELSE LET it == items[k]
         IN IF it.parent_id # NoId
              THEN IF it.parent_id \in DOMAIN nodes
                     THEN LET linked ==
                                [nodes EXCEPT
                                   ![it.id].parent = it.parent_id,
                                   ![it.id].depth = nodes[it.parent_id].depth + 1]
                              pushed ==
                                [linked EXCEPT
                                   ![it.parent_id].children =
                                      SortedIds(items, Append(@, it.id))]
                          IN LinkTreeNodes(items, k + 1, pushed, roots)
                     ELSE LinkTreeNodes(items, k + 1, nodes, roots)
              ELSE LinkTreeNodes(items, k + 1, nodes, Append(roots, it.id))

\* LearningTree.buildTreeStructure(items)
BuildTreeStructureOf(items) ==
  LET nodeMap == [id \in ItemIds(items) |-> NewTreeNode]
      linked == LinkTreeNodes(items, 1, nodeMap, <<>>)
  IN [nodes |-> linked.nodes, roots |-> SortedIds(items, linked.roots)]

\* The subscriber of trainingItems$ in loadTrainingItems: the forest emitted
\* is turned into TreeNodes and put into treeState.rootNodes.
BuildTreeStructure ==
  /\ stage = "built"
  /\ LET built == BuildTreeStructureOf(EmittedItems(forest))
     IN /\ treeNodes' = built.nodes
        /\ rootNodes' = built.roots
  /\ stage' = "shown"
  /\ UNCHANGED <<input, forest, flat, outsideBuildView>>

\* ------------------------------------------------------ bulk operations
\* A hole of a sparse array / undefined.
Undefined == [undefined |-> TRUE]

\* titles of the items handed to importTrainingItems
TitleInputs == {1, 2}

\* The TrainingItem createTrainingItem emits for the input at index i.
CreatedItem(items, i) == [title |-> items[i], index |-> i]

\* results.filter((r) => r !== undefined)
FilterDefined(results) == SelectSeq(results, LAMBDA r : r # Undefined)

\* observer.next(value); observer.complete()
NextAndComplete(observer, value) ==
  [emissions |-> Append(observer.emissions, value), complete |-> TRUE]

\* Subscribing to the Observable importTrainingItems returned:
\* createObservables.forEach subscribes every creation, which sends its insert.
SubscribeImport ==
  /\ ~importRun.sent
  /\ importRun' = [importRun EXCEPT
                     !.sent = TRUE,
                     !.creations = [i \in 1..Len(importRun.items) |-> "pending"],
                     !.results = [i \in 1..Len(importRun.items) |-> Undefined]]
  /\ UNCHANGED <<importObserver, commentRun, commentObserver, outsideBulk>>

\* The next callback of the creation at index i. createTrainingItem emits
\* the created item, or null when the insert failed (its catchError), so the
\* error callback is never reached.
CreationNext ==
  \E i \in 1..Len(importRun.items), ok \in BOOLEAN :
    /\ importRun.sent
    /\ importRun.creations[i] = "pending"
    /\ LET results == IF ok
                      THEN [importRun.results EXCEPT
                              ![i] = CreatedItem(importRun.items, i)]
                      ELSE importRun.results
           completed == importRun.completed + 1
       IN /\ importRun' = [importRun EXCEPT
                             !.creations[i] = IF ok THEN "created" ELSE "failed",
                             !.results = results,
                             !.completed = completed]
          /\ importObserver' =
               IF completed = Len(importRun.items)
               THEN NextAndComplete(importObserver, FilterDefined(results))
               ELSE importObserver
    /\ UNCHANGED <<commentRun, commentObserver, outsideBulk>>

\* user ids; usernames are taken to be user ids (processCommentNotifications)
Users == 1..MaxUsers

\* 'original_author_id', the placeholder recipient of a reply notification
OriginalAuthor == 0

\* [...new Set(mentions)]: the first occurrence of each name, in order
RECURSIVE Distinct(_)
Distinct(s) ==
  IF s = <<>> THEN <<>>
  ELSE LET rest == Distinct(SubSeq(s, 1, Len(s) - 1))
           last == s[Len(s)]
       IN IF \E k \in 1..Len(rest) : rest[k] = last THEN rest
          ELSE Append(rest, last)

\* extractMentions(content); the content is given by the names that follow
\* its @ signs, in the order of the text.
extractMentions(content) == Distinct(content)

\* createMentionNotification / createReplyNotification: the requests
MentionNotification(username) == [type |-> "mention", user_id |-> username]
ReplyNotification == [type |-> "reply", user_id |-> OriginalAuthor]

\* the notifications array processCommentNotifications builds
CommentNotifications(comment) ==
  LET mentioned == SelectSeq(extractMentions(comment.content),
                             LAMBDA u : u # comment.author_id)
      mentions == [k \in 1..Len(mentioned) |-> MentionNotification(mentioned[k])]
  IN IF comment.parent_comment_id # NoId
     THEN Append(mentions, ReplyNotification)
     ELSE mentions

\* Subscribing to the Observable processCommentNotifications returned.
SubscribeComment ==
  LET notifications == CommentNotifications(commentRun.comment)
  IN /\ ~commentRun.sent
     /\ commentRun' = [commentRun EXCEPT
                         !.sent = TRUE,
                         !.inserts = [i \in 1..Len(notifications) |-> "pending"]]
     /\ commentObserver' =
          IF Len(notifications) = 0
          THEN NextAndComplete(commentObserver, <<>>)
          ELSE commentObserver
     /\ UNCHANGED <<importRun, importObserver, outsideBulk>>

\* The insert of notification i succeeded: its next callback pushes the row,
\* its complete callback counts it.
InsertNext ==
  \E i \in 1..Len(commentRun.inserts) :
    /\ commentRun.inserts[i] = "pending"
    /\ LET results == Append(commentRun.results,
                             CommentNotifications(commentRun.comment)[i])
           completed == commentRun.completed + 1
       IN /\ commentRun' = [commentRun EXCEPT
                              !.inserts[i] = "created",
                              !.results = results,
                              !.completed = completed]
          /\ commentObserver' =
               IF completed = Len(commentRun.inserts)
               THEN NextAndComplete(commentObserver, results)
               ELSE commentObserver
    /\ UNCHANGED <<importRun, importObserver, outsideBulk>>

\* The insert of notification i failed: supabase.insert rethrows, the error
\* callback logs it; an errored Observable does not call complete.
InsertError ==
  \E i \in 1..Len(commentRun.inserts) :
    /\ commentRun.inserts[i] = "pending"
    /\ commentRun' = [commentRun EXCEPT !.inserts[i] = "failed"]
    /\ UNCHANGED <<commentObserver, importRun, importObserver, outsideBulk>>

\* -------------------------------------------------------- notifications
\* ids of the user's notifications, in the order of their created_at
NotifIds == 1..MaxNotifs
Subscriptions == 1..MaxSubscriptions

\* The rows a select on notifications returns.
RECURSIVE RowsUpTo(_, _)
RowsUpTo(rows, n) ==
  IF n = 0 THEN <<>>
  ELSE IF rows[n] \in {"unread", "read"}
       THEN Append(RowsUpTo(rows, n - 1), [id |-> n, read |-> rows[n] = "read"])
       ELSE RowsUpTo(rows, n - 1)

\* notifications.sort(created_at descending)
RECURSIVE SortNewestFirst(_)
SortNewestFirst(s) ==
  IF s = <<>> THEN <<>>
  ELSE LET newest == CHOOSE k \in 1..Len(s) :
                       \A j \in 1..Len(s) :
                         s[j].id < s[k].id \/ (s[j].id = s[k].id /\ k <= j)
       IN <<s[newest]>> \o
          SortNewestFirst(SubSeq(s, 1, newest - 1) \o SubSeq(s, newest + 1, Len(s)))

\* .slice(0, 50)
Slice(s, n) == SubSeq(s, 1, IF Len(s) < n THEN Len(s) ELSE n)

\* updateUnreadCount: notifications.filter((n) => !n.read).length
updateUnreadCount(notifications) ==
  Len(SelectSeq(notifications, LAMBDA n : ~n.read))

\* handleNewNotification: [notification, ...currentNotifications].slice(0, 50)
handleNewNotification(current, notification) ==
  Slice(<<notification>> \o current, NotificationLimit)

\* handleNotificationUpdate: replace the entries with the payload's id
handleNotificationUpdate(current, updated) ==
  [k \in 1..Len(current) |->
     IF current[k].id = updated.id THEN updated ELSE current[k]]

\* notificationsSubject.next(list); updateUnreadCount(list); the panel's
\* two subscriptions copy both values into its signals.
Publish(list) ==
  /\ notificationsSubject' = list
  /\ unreadCountSubject' = updateUnreadCount(list)
  /\ panel' = [notifications |-> list, unreadCount |-> updateUnreadCount(list)]

\* the payload reaches the callback of every subscription open at the time
Broadcast(payload) ==
  /\ \A k \in 1..subscriptions : Len(inbox[k]) < MaxInbox
  /\ inbox' = [k \in Subscriptions |->
                 IF k <= subscriptions THEN Append(inbox[k], payload)
                 ELSE inbox[k]]

\* currentUser$ emits the user (loadUserProfile, updateUserProfile):
\* initializeNotifications starts a load, setupRealtimeSubscription opens
\* one more subscription.
NotifUserEmitted ==
  /\ subscriptions < MaxSubscriptions
  /\ subscriptions' = subscriptions + 1
  /\ loads' = [loads EXCEPT ![subscriptions + 1] = [state |-> "sent", rows |-> <<>>]]
  /\ UNCHANGED <<notifRows, inbox, notificationsSubject, unreadCountSubject,
                 panel, outsideNotif>>

\* The table runs the select of a load; on an error the error callback of
\* loadUserNotifications only logs.
ServeLoad ==
  \E k \in Subscriptions, net \in BOOLEAN :
    /\ loads[k].state = "sent"
    /\ loads' = [loads EXCEPT ![k] =
                   IF net
                   THEN [state |-> "served", rows |-> RowsUpTo(notifRows, MaxNotifs)]
                   ELSE [state |-> "done", rows |-> <<>>]]
    /\ UNCHANGED <<notifRows, subscriptions, inbox, notificationsSubject,
                   unreadCountSubject, panel, outsideNotif>>

\* loadUserNotifications' next callback
DeliverLoad ==
  \E k \in Subscriptions :
    /\ loads[k].state = "served"
    /\ loads' = [loads EXCEPT ![k].state = "done"]
    /\ Publish(Slice(SortNewestFirst(loads[k].rows), NotificationLimit))
    /\ UNCHANGED <<notifRows, subscriptions, inbox, outsideNotif>>

\* createNotification for this user, by anyone: the row is inserted and the
\* INSERT payload is sent.
NotificationCreated ==
  \E id \in NotifIds :
    /\ notifRows[id] = "absent"
    /\ \A o \in NotifIds : o < id => notifRows[o] # "absent"
    /\ notifRows' = [notifRows EXCEPT ![id] = "unread"]
    /\ Broadcast([eventType |-> "INSERT", new |-> [id |-> id, read |-> FALSE]])
    /\ UNCHANGED <<subscriptions, loads, notificationsSubject,
                   unreadCountSubject, panel, outsideNotif>>

\* The panel's markAsRead on a displayed unread notification: the row is
\* updated and the UPDATE payload is sent; the response changes nothing.
MarkAsRead ==
  \E i \in 1..Len(panel.notifications) :
    LET id == panel.notifications[i].id
    IN /\ ~panel.notifications[i].read
       /\ notifRows[id] \in {"unread", "read"}
       /\ notifRows' = [notifRows EXCEPT ![id] = "read"]
       /\ Broadcast([eventType |-> "UPDATE", new |-> [id |-> id, read |-> TRUE]])
       /\ UNCHANGED <<subscriptions, loads, notificationsSubject,
                      unreadCountSubject, panel, outsideNotif>>

\* The panel's deleteNotification, the delete succeeding: the row goes and
\* the next callback filters the panel's own list. The callbacks of the
\* realtime subscriptions ignore DELETE payloads.
DeleteNotification ==
  \E i \in 1..Len(panel.notifications) :
    LET id == panel.notifications[i].id
    IN /\ notifRows' = [notifRows EXCEPT ![id] = "deleted"]
       /\ panel' = [panel EXCEPT
                      !.notifications = SelectSeq(panel.notifications,
                                                  LAMBDA n : n.id # id)]
       /\ UNCHANGED <<subscriptions, loads, inbox, notificationsSubject,
                      unreadCountSubject, outsideNotif>>

\* The callback of subscription k receives its next payload.
DeliverEvent ==
  \E k \in Subscriptions :
    /\ inbox[k] # <<>>
    /\ inbox' = [inbox EXCEPT ![k] = Tail(inbox[k])]
    /\ LET payload == Head(inbox[k])
       IN IF payload.eventType = "INSERT"
          THEN Publish(handleNewNotification(notificationsSubject, payload.new))
          ELSE Publish(handleNotificationUpdate(notificationsSubject, payload.new))
    /\ UNCHANGED <<notifRows, subscriptions, loads, outsideNotif>>

\* ------------------------------------------------------ specifications
InitNode ==
  /\ item = FreshItem
  /\ row = FreshItem
  /\ shown = TRUE
  /\ now = 1
  /\ lastOp = [op |-> "init", p |-> 0, ok |-> TRUE]

InitStore ==
  /\ table = [i \in Ids |-> Absent]
  /\ nextId = 1
  /\ storeOp = [op |-> "init", ok |-> TRUE, n |-> 0]

InitBuild ==
  /\ input = <<>>
  /\ forest = <<>>
  /\ flat = <<>>
  /\ stage = "input"

InitFetch ==
  /\ signedIn = FALSE
  /\ dataVersion = 0
  /\ fetches = [q \in FetchIds |->
                  [state |-> "none", value |-> EmptyList, ok |-> TRUE]]
  /\ subject = [value |-> EmptyList, from |-> 0]
  /\ lastResolved = 0

\* new TrainingItem({id, level}): no children
InitChild ==
  /\ parentItem = [id |-> ParentId, level |-> 0, children |-> <<>>]
  /\ childOp = [op |-> "init", id |-> NoId, n |-> 0]

\* one item without children
InitAgg ==
  /\ progressTree = <<[parent_id |-> NoId, progress_percentage |-> 0]>>
  /\ overall = <<NotCalled>>

\* a user without rows, getUserStats not called
InitStats ==
  /\ userRecords = <<>>
  /\ stats = NoStats

\* treeState.rootNodes before the first emission
InitView ==
  /\ treeNodes = <<>>
  /\ rootNodes = <<>>

\* no import and no comment under way
NoImport ==
  [items |-> <<>>, sent |-> FALSE, creations |-> <<>>, results |-> <<>>,
   completed |-> 0]
NoEmission == [emissions |-> <<>>, complete |-> FALSE]
NoComment ==
  [comment |-> [content |-> <<>>, author_id |-> 1, parent_comment_id |-> NoId],
   sent |-> FALSE, inserts |-> <<>>, results |-> <<>>, completed |-> 0]

InitBulk ==
  /\ importRun = NoImport
  /\ importObserver = NoEmission
  /\ commentRun = NoComment
  /\ commentObserver = NoEmission

\* nobody signed in yet, the panel open
InitNotif ==
  /\ notifRows = [id \in NotifIds |-> "absent"]
  /\ subscriptions = 0
  /\ loads = [k \in Subscriptions |-> [state |-> "none", rows |-> <<>>]]
  /\ inbox = [k \in Subscriptions |-> <<>>]
  /\ notificationsSubject = <<>>
  /\ unreadCountSubject = 0
  /\ panel = [notifications |-> <<>>, unreadCount |-> 0]

\* one item without children; the constructor's default is 30 minutes
InitTime ==
  /\ timeTree = <<[parent_id |-> NoId, estimated_duration_minutes |-> 30]>>
  /\ totalTime = <<TimeNotCalled>>

Init == InitNode /\ InitStore /\ InitBuild /\ InitFetch /\ InitChild /\ InitAgg /\ InitTime /\ InitStats /\ InitView /\ InitBulk /\ InitNotif

\* getOverallProgress on the items of every tree
InitTrees ==
  /\ InitNode /\ InitStore /\ InitBuild /\ InitFetch /\ InitChild /\ InitTime /\ InitStats /\ InitView /\ InitBulk /\ InitNotif
  /\ progressTree \in ProgressTrees
  /\ overall = [i \in 1..Len(progressTree) |-> NotCalled]

NextOverall == GetOverallProgress

SpecOverall == InitTrees /\ [][NextOverall]_vars

\* getTotalEstimatedTime on the items of every tree
InitTimeTrees ==
  /\ InitNode /\ InitStore /\ InitBuild /\ InitFetch /\ InitChild /\ InitAgg /\ InitStats /\ InitView /\ InitBulk /\ InitNotif
  /\ timeTree \in TimeTrees
  /\ totalTime = [i \in 1..Len(timeTree) |-> TimeNotCalled]

NextTotalTime == GetTotalEstimatedTime

SpecTotalTime == InitTimeTrees /\ [][NextTotalTime]_vars

\* getUserStats over every list of rows
InitUserRecords ==
  /\ InitNode /\ InitStore /\ InitBuild /\ InitFetch /\ InitChild /\ InitAgg /\ InitTime /\ InitView /\ InitBulk /\ InitNotif
  /\ \E c \in UserRecordLists : userRecords = UserRecords(c)
  /\ stats = NoStats

NextStats == GetUserStats

SpecStats == InitUserRecords /\ [][NextStats]_vars

\* importTrainingItems called with any list of up to MaxImport items
ImportLists == UNION {[1..n -> TitleInputs] : n \in 0..MaxImport}

InitImports ==
  /\ InitNode /\ InitStore /\ InitBuild /\ InitFetch /\ InitChild /\ InitAgg /\ InitTime /\ InitStats /\ InitView /\ InitNotif
  /\ \E items \in ImportLists : importRun = [NoImport EXCEPT !.items = items]
  /\ importObserver = NoEmission
  /\ commentRun = NoComment
  /\ commentObserver = NoEmission

NextImport == SubscribeImport \/ CreationNext

SpecImport == InitImports /\ [][NextImport]_vars

\* processCommentNotifications called with any comment of up to MaxMentions
\* mentions, a reply or not
Contents == UNION {[1..n -> Users] : n \in 0..MaxMentions}

InitComments ==
  /\ InitNode /\ InitStore /\ InitBuild /\ InitFetch /\ InitChild /\ InitAgg /\ InitTime /\ InitStats /\ InitView /\ InitNotif
  /\ importRun = NoImport
  /\ importObserver = NoEmission
  /\ \E content \in Contents, author \in Users, parent \in {NoId, 1} :
       commentRun = [NoComment EXCEPT
                       !.comment = [content |-> content, author_id |-> author,
                                    parent_comment_id |-> parent]]
  /\ commentObserver = NoEmission

NextComments == SubscribeComment \/ InsertNext \/ InsertError

SpecComments == InitComments /\ [][NextComments]_vars

\* the notifications of one signed-in user and the panel showing them
NextNotifications ==
  \/ NotifUserEmitted \/ ServeLoad \/ DeliverLoad \/ NotificationCreated
  \/ MarkAsRead \/ DeleteNotification \/ DeliverEvent

SpecNotifications == Init /\ [][NextNotifications]_vars

\* addChild / removeChild on an item constructed with any children list
InitChildren ==
  /\ InitNode /\ InitStore /\ InitBuild /\ InitFetch /\ InitAgg /\ InitTime /\ InitStats /\ InitView /\ InitBulk /\ InitNotif
  /\ \E c \in ChildLists, l \in LevelInputs :
       parentItem =
         [id |-> ParentId, level |-> l,
          children |-> [k \in 1..Len(c) |->
                          [id |-> c[k].id, parent_id |-> ParentId,
                           level |-> l + 1, order_index |-> c[k].order_index]]]
  /\ childOp = [op |-> "init", id |-> NoId, n |-> 0]

NextChildren == AddChild \/ RemoveChild

SpecChildren == InitChildren /\ [][NextChildren]_vars

\* buildTrainingTree then flattenTree on every input collection
InitInputs ==
  /\ InitNode /\ InitStore /\ InitFetch /\ InitChild /\ InitAgg /\ InitTime /\ InitStats /\ InitView /\ InitBulk /\ InitNotif
  /\ \E c \in InputCollections : input = InputItems(c)
  /\ forest = <<>>
  /\ flat = <<>>
  /\ stage = "input"

NextBuild == BuildTree \/ Flatten

SpecBuild == InitInputs /\ [][NextBuild]_vars

\* every forest getTrainingItems can emit, shown by the LearningTree
NextTreeView == BuildTree \/ BuildTreeStructure

SpecTreeView == InitInputs /\ [][NextTreeView]_vars

\* the fetches of one session, resolving in any order
NextFetch ==
  \/ UserEmitted \/ RefreshTrainingItems \/ ServeFetch \/ DeliverFetch
  \/ TableChanged

SpecFetch == Init /\ [][NextFetch]_vars

\* sessions: users sign in and out while fetches are in flight
NextSession == NextFetch \/ SignOut

SpecSession == Init /\ [][NextSession]_vars

\* updateProgress calls only, on a freshly created item
NextProgress == Tick \/ ModelUpdateProgress \/ ServiceUpdateProgress

SpecProgress == Init /\ [][NextProgress]_vars

\* one item under every operation that touches its progress or removes it
NextNode ==
  \/ Tick \/ ModelUpdateProgress \/ ServiceUpdateProgress
  \/ TreeUpdateProgress \/ DeleteNode \/ UpdateStatus \/ Reload

SpecNode == Init /\ [][NextNode]_vars

\* updateProgress calls at one instant on an item whose status is also set
\* explicitly and which is reloaded from its row
NextStatus ==
  \/ ModelUpdateProgress \/ ServiceUpdateProgress \/ UpdateStatus \/ Reload

SpecStatus == Init /\ [][NextStatus]_vars

\* the table under the service's structural operations
NextStore == CreateTrainingItem \/ MoveTrainingItem \/ DeleteTrainingItem

SpecStore == Init /\ [][NextStore]_vars

\* ------------------------------------------------------------ claims
\* The three conditions of the completion invariant on one record.
AtHundred(r) == r.progress_percentage = 100
IsCompleted(r) == r.status = COMPLETED
HasCompletedAt(r) == r.completed_at # 0
AllOrNone(r) ==
  /\ AtHundred(r) <=> IsCompleted(r)
  /\ IsCompleted(r) <=> HasCompletedAt(r)
CompletionChain(r) ==
  /\ AtHundred(r) => IsCompleted(r)
  /\ IsCompleted(r) => HasCompletedAt(r)

\* C1 (as stated): after any sequence of updateProgress calls on a fresh item,
\* progress_percentage = 100, status = completed and completed_at set are all
\* true or all false, for the in-memory item and for the stored row.
C1_AllOrNone ==
  /\ AllOrNone(item)
  /\ row # Absent => AllOrNone(row)

\* C1 (amended): progress_percentage = 100 implies status = completed, and
\* status = completed implies completed_at is set; the converses fail once
\* progress is lowered again.
C1_CompletionChain ==
  /\ CompletionChain(item)
  /\ row # Absent => CompletionChain(row)

\* Both paths have taken an item to 100 and completed it.
C1_Witness ==
  /\ AtHundred(item) /\ IsCompleted(item) /\ HasCompletedAt(item)
  /\ row # Absent /\ AtHundred(row) /\ IsCompleted(row)
  /\ lastOp.op = "TrainingService.updateProgress"

\* The statuses updateProgress must leave alone below 100.
KeptStatuses == {IN_PROGRESS, COMPLETED, PAUSED, ARCHIVED}

\* C7: updateProgress with a resulting percentage below 100 on an item whose
\* status is in_progress, completed, paused or archived leaves the status
\* unchanged, on the in-memory item and on the stored row.
C7_StatusKept ==
  [][/\ (/\ lastOp'.op \in {"TrainingItem.updateProgress"}
         /\ Clamp(lastOp'.p) < 100
         /\ item.status \in KeptStatuses)
        => item'.status = item.status
     /\ (/\ lastOp'.op = "TrainingService.updateProgress"
         /\ Clamp(lastOp'.p) < 100
         /\ row # Absent
         /\ row.status \in KeptStatuses)
        => row'.status = row.status]_vars

\* C8: when the store operation of LearningTree.updateProgress or
\* LearningTree.deleteNode fails, the displayed item and its presence in the
\* displayed tree are as before the call.
C8_NoPartialApply ==
  [][(/\ lastOp'.op \in {"LearningTree.updateProgress", "LearningTree.deleteNode"}
      /\ ~lastOp'.ok)
     => (item' = item /\ shown' = shown)]_vars

\* ---------------------------------------------- progress claims, continued
InRange(v) == v >= 0 /\ v <= 100

\* C11: every progress-update path clamps the requested percentage: the
\* in-memory progress_percentage, the stored one and the progress_percentage
\* sent to the store all lie in [0,100], whatever integer is requested.
C11_ClampedEverywhere ==
  [][/\ InRange(item'.progress_percentage)
     /\ row' # Absent => InRange(row'.progress_percentage)
     /\ lastOp'.op = "TrainingService.updateProgress"
        => InRange(ServiceProgressUpdates(lastOp'.p, now).progress_percentage)
     /\ lastOp'.op = "LearningTree.updateProgress"
        => InRange(TreeProgressUpdates(item', lastOp'.p).progress_percentage)]_vars

FullyCompleted(r) == AtHundred(r) /\ IsCompleted(r) /\ HasCompletedAt(r)

\* C12 (as stated): updateProgress with a requested percentage >= 100, on an
\* item in any prior state, results in progress_percentage = 100, status =
\* completed and completed_at set.
C12_SaturatesFromAnyState ==
  [][/\ (lastOp'.op = "TrainingItem.updateProgress" /\ lastOp'.p >= 100)
        => FullyCompleted(item')
     /\ (/\ lastOp'.op = "TrainingService.updateProgress" /\ lastOp'.p >= 100
         /\ lastOp'.ok)
        => FullyCompleted(row')]_vars

\* C12 (amended): the same for an item that, when it is already completed,
\* has its completed_at set; TrainingItem.updateProgress sets completed_at
\* only on the change to completed.
C12_SaturatesFromChain ==
  [][/\ (/\ lastOp'.op = "TrainingItem.updateProgress" /\ lastOp'.p >= 100
         /\ IsCompleted(item) => HasCompletedAt(item))
        => FullyCompleted(item')
     /\ (/\ lastOp'.op = "TrainingService.updateProgress" /\ lastOp'.p >= 100
         /\ lastOp'.ok)
        => FullyCompleted(row')]_vars

\* updateProgress(150) has completed the in-memory item.
C12_Witness ==
  /\ lastOp.op = "TrainingItem.updateProgress"
  /\ lastOp.p = 150
  /\ FullyCompleted(item)

\* C13: on an item with status not_started, updateProgress with a requested
\* percentage <= 0 leaves status not_started, and with a percentage strictly
\* between 0 and 100 sets status in_progress.
C13_NotStartedBoundary ==
  [][/\ (lastOp'.op = "TrainingItem.updateProgress" /\ item.status = NOT_STARTED)
        => /\ lastOp'.p <= 0 => item'.status = NOT_STARTED
           /\ (lastOp'.p > 0 /\ lastOp'.p < 100) => item'.status = IN_PROGRESS
     /\ (/\ lastOp'.op = "TrainingService.updateProgress" /\ lastOp'.ok
         /\ row.status = NOT_STARTED)
        => /\ lastOp'.p <= 0 => row'.status = NOT_STARTED
           /\ (lastOp'.p > 0 /\ lastOp'.p < 100) => row'.status = IN_PROGRESS]_vars

\* The service was asked for 0 on a stored item that is still not_started.
C13_Witness ==
  /\ lastOp.op = "TrainingService.updateProgress"
  /\ lastOp.p = 0
  /\ lastOp.ok
  /\ row.status = NOT_STARTED
  /\ row.last_practiced_at = now

\* C14: once an item is completed and completed_at is set, a later
\* updateProgress with a percentage >= 100 leaves completed_at as it is.
C14_FirstCompletionKept ==
  [][/\ (/\ lastOp'.op = "TrainingItem.updateProgress" /\ lastOp'.p >= 100
         /\ IsCompleted(item) /\ HasCompletedAt(item))
        => item'.completed_at = item.completed_at
     /\ (/\ lastOp'.op = "TrainingService.updateProgress" /\ lastOp'.p >= 100
         /\ row # Absent /\ IsCompleted(row) /\ HasCompletedAt(row))
        => row'.completed_at = row.completed_at]_vars

\* ------------------------------------------------------ tree claims
Acyclic(t) == \A i \in Ids : ~ReachesUp(t, i, i, MaxItems)

LevelsConsistent(t) ==
  \A i \in Ids :
    Present(t, i) =>
      t[i].level = IF t[i].parent_id = NoId \/ ~Present(t, t[i].parent_id)
                     THEN 0
                     ELSE t[t[i].parent_id].level + 1

NoOrphans(t) ==
  \A i \in Ids : Present(t, i) => ForeignKeyHolds(t, t[i].parent_id)

\* C2: a move whose new parent is the moved item or one of its descendants
\* is rejected and changes nothing: no step gives a stored item such a parent.
C2_InvalidMoveRejected ==
  [][\A i \in Ids :
       (/\ Present(table, i) /\ Present(table', i)
        /\ table'[i] # table[i])
       => /\ table'[i].parent_id # i
          /\ table'[i].parent_id \notin Descendants(table, i)]_vars

\* C3: in every reachable state the parent_id relation is acyclic, no item is
\* its own ancestor.
C3_Acyclic == Acyclic(table)

\* C6: after a move every item's level is its parent's level + 1, and 0 for a
\* root; stated for the moves that start from consistent levels and leave the
\* forest acyclic.
C6_LevelsAfterMove ==
  [][(/\ storeOp'.op = "moveTrainingItem" /\ storeOp'.ok
      /\ LevelsConsistent(table)
      /\ Acyclic(table'))
     => LevelsConsistent(table')]_vars

\* The items stored under a parent; the root list for NoId.
ChildrenOf(t, parent) == {i \in Ids : Present(t, i) /\ t[i].parent_id = parent}

\* The order_index values of the children of a parent are 0..n-1, each once.
Dense(t, parent) ==
  LET c == ChildrenOf(t, parent)
  IN /\ {t[i].order_index : i \in c} = 0..(Cardinality(c) - 1)
     /\ \A i, j \in c : t[i].order_index = t[j].order_index => i = j

AllDense(t) == \A parent \in {NoId} \cup Ids : Dense(t, parent)

\* C15: after a move the order_index values of the children of the old and
\* of the new parent (or of the root list) are 0..n-1 without duplicates or
\* gaps; stated for the moves that start from dense sibling lists and leave
\* the forest acyclic, where the other lists are untouched.
C15_DenseAfterMove ==
  [][(/\ storeOp'.op = "moveTrainingItem" /\ storeOp'.ok
      /\ AllDense(table)
      /\ Acyclic(table'))
     => AllDense(table')]_vars

\* C10: a successful deleteTrainingItem(id) leaves no item that had id as an
\* ancestor, and no remaining item refers to a deleted item through parent_id.
C10_CascadeDelete ==
  [][/\ \A i \in Ids :
          (Present(table, i) /\ ~Present(table', i))
          => \A d \in Descendants(table, i) : ~Present(table', d)
     /\ NoOrphans(table')]_vars

\* A delete that removed an item together with a row below it.
C10_Witness ==
  /\ storeOp.op = "deleteTrainingItem"
  /\ storeOp.ok
  /\ storeOp.n >= 2

\* --------------------------------------------------- assembly claims
\* Whether the item with id a is reached from the item with id `id` by
\* following parent_id inside the collection, in at most `fuel` steps.
RECURSIVE InputReachesUp(_, _, _, _)
InputReachesUp(items, id, a, fuel) ==
  /\ fuel > 0
  /\ id \in ItemIds(items)
  /\ LET p == ItemWithId(items, id).parent_id
     IN /\ p # NoId
        /\ \/ p = a
           \/ InputReachesUp(items, p, a, fuel - 1)

InputAcyclic(items) ==
  \A id \in ItemIds(items) : ~InputReachesUp(items, id, id, Len(items))

Dangling(items, it) == it.parent_id # NoId /\ it.parent_id \notin ItemIds(items)

Occurrences(s, x) == Cardinality({j \in 1..Len(s) : s[j] = x})

\* C4: an item whose parent_id names no item of the collection is returned
\* as a root of the forest.
C4_DanglingIsRoot ==
  stage # "input" =>
    \A k \in 1..Len(input) :
      Dangling(input, input[k]) =>
        \E r \in 1..Len(forest) : forest[r].item = input[k]

\* C5: for an acyclic collection of items with distinct ids,
\* flatten(buildTree(items)) holds every input item exactly once and nothing
\* else.
C5_FlattenRecoversInput ==
  (stage = "flat" /\ InputAcyclic(input)) =>
    /\ \A k \in 1..Len(input) : Occurrences(flat, input[k]) = 1
    /\ \A j \in 1..Len(flat) : \E k \in 1..Len(input) : flat[j] = input[k]

\* A list of nodes is ascending by order_index, and nodes of equal
\* order_index are in input order (the k-th input item has id k).
SortedList(s) ==
  \A i, j \in 1..Len(s) :
    i < j =>
      \/ s[i].item.order_index < s[j].item.order_index
      \/ /\ s[i].item.order_index = s[j].item.order_index
         /\ s[i].item.id < s[j].item.id

RECURSIVE SortedAtEveryDepth(_)
SortedAtEveryDepth(nodes) ==
  /\ SortedList(nodes)
  /\ \A k \in 1..Len(nodes) : SortedAtEveryDepth(nodes[k].children)

\* C18: in the forest buildTrainingTree returns, the root list and the
\* children list of every node at every depth are ascending by order_index,
\* items of equal order_index in their input order.
C18_SortedAtEveryDepth ==
  stage # "input" => SortedAtEveryDepth(forest)

\* A root whose two children came in the input in descending order_index
\* and were put in ascending order.
C18_Witness ==
  /\ stage = "built"
  /\ Len(forest) = 1
  /\ Len(forest[1].children) = 2
  /\ forest[1].children[1].item.id > forest[1].children[2].item.id
  /\ forest[1].children[1].item.order_index < forest[1].children[2].item.order_index

\* The number of nodes of a forest.
RECURSIVE ForestSize(_)
ForestSize(nodes) ==
  IF nodes = <<>>
    THEN 0
    ELSE 1 + ForestSize(Head(nodes).children) + ForestSize(Tail(nodes))

\* The list f holds, from position `at` on, the nodes of the forest in
\* pre-order: a node, then its children each followed by its whole subtree,
\* then the node's next sibling.
RECURSIVE PreorderAt(_, _, _)
PreorderAt(nodes, f, at) ==
  \/ nodes = <<>>
  \/ /\ at <= Len(f)
     /\ f[at] = Head(nodes).item
     /\ PreorderAt(Head(nodes).children, f, at + 1)
     /\ PreorderAt(Tail(nodes), f, at + 1 + ForestSize(Head(nodes).children))

\* C19: flattenTree of an acyclic forest is the pre-order traversal: every
\* node exactly once, after its parent, the children of a node in list order
\* and each followed by its whole subtree before the next sibling.
C19_FlattenIsPreorder ==
  stage = "flat" =>
    /\ Len(flat) = ForestSize(forest)
    /\ PreorderAt(forest, flat, 1)
    /\ \A j \in 1..Len(flat) : Occurrences(flat, flat[j]) = 1

\* A root with a child, followed by a second root: the child comes between.
C19_Witness ==
  /\ stage = "flat"
  /\ Len(forest) = 2
  /\ Len(forest[1].children) = 1
  /\ flat = <<forest[1].item, forest[1].children[1].item, forest[2].item>>

\* --------------------------------------------------- children claims
IdsOf(s) == [k \in 1..Len(s) |-> s[k].id]

\* The position of the child with the given id in a children list.
PositionOf(s, id) == CHOOSE k \in 1..Len(s) : s[k].id = id

\* C16: after parent.removeChild(childId) no child has that id, the other
\* children are all still there in their previous relative order, and their
\* order_index values are 0..n-1 in list order.
C16_RemoveChildReindexes ==
  [][childOp'.op = "removeChild" =>
       LET before == parentItem.children
           after == parentItem'.children
       IN /\ \A k \in 1..Len(after) : after[k].id # childOp'.id
          /\ \A k \in 1..Len(before) :
               before[k].id # childOp'.id =>
                 \E j \in 1..Len(after) :
                   after[j] = [before[k] EXCEPT !.order_index = j - 1]
          /\ Len(after) = Cardinality({k \in 1..Len(before) :
                                         before[k].id # childOp'.id})
          /\ \A i, j \in 1..Len(after) :
               i < j => PositionOf(before, after[i].id)
                          < PositionOf(before, after[j].id)
          /\ \A k \in 1..Len(after) : after[k].order_index = k - 1]_vars

\* A child was removed from a list of three, two remain.
C16_Witness ==
  /\ childOp.op = "removeChild"
  /\ childOp.n = 3
  /\ Len(parentItem.children) = 2
  /\ parentItem.children[1].id > parentItem.children[2].id

RECURSIVE SumReturned(_)
SumReturned(kids) ==
  IF kids = <<>>
    THEN Whole(0)
    ELSE Plus(overall[Head(kids)].value, SumReturned(Tail(kids)))

\* a = b for fractions, and a * k
SameValue(a, b) == a.num * b.den = b.num * a.den
Times(a, k) == Fraction(a.num * k, a.den)

\* C20: getOverallProgress of an item without children is its
\* progress_percentage; of an item with k >= 1 children it is (own
\* progress_percentage + the sum of the children's getOverallProgress)
\* / (1 + k), whatever the sizes of the children's subtrees; with progress
\* values in [0,100] the result is in [0,100].
C20_OverallProgressIsMean ==
  \A i \in 1..Len(progressTree) :
    LET kids == ChildrenOfNode(progressTree, i)
        k == Len(kids)
        own == progressTree[i].progress_percentage
    IN overall[i].called =>
         /\ k = 0 => overall[i].value = Whole(own)
         /\ (k >= 1 /\ \A j \in 1..k : overall[kids[j]].called) =>
              SameValue(Times(overall[i].value, 1 + k),
                        Plus(Whole(own), SumReturned(kids)))
         /\ overall[i].value.num >= 0
         /\ overall[i].value.num <= 100 * overall[i].value.den

\* The item at 100 with children at 0 and 50 returned 50.
C20_Witness ==
  /\ Len(progressTree) = 3
  /\ progressTree[1].progress_percentage = 100
  /\ progressTree[2] = [parent_id |-> 1, progress_percentage |-> 0]
  /\ progressTree[3] = [parent_id |-> 1, progress_percentage |-> 50]
  /\ \A i \in 1..3 : overall[i].called
  /\ overall[1].value = Whole(50)

\* The minutes of the given items added up.
RECURSIVE SumMinutes(_, _)
SumMinutes(t, nodes) ==
  IF nodes = {}
    THEN 0
    ELSE LET i == CHOOSE n \in nodes : TRUE
         IN t[i].estimated_duration_minutes + SumMinutes(t, nodes \ {i})

\* C21: getTotalEstimatedTime of an item is the sum of
\* estimated_duration_minutes over the item and all of its descendants; for
\* an item without children it is the item's own estimated_duration_minutes.
C21_TotalIsSubtreeSum ==
  \A i \in 1..Len(timeTree) :
    totalTime[i].called =>
      /\ totalTime[i].value = SumMinutes(timeTree, SubtreeNodes(timeTree, i))
      /\ ChildrenOfNode(timeTree, i) = <<>> =>
           totalTime[i].value = timeTree[i].estimated_duration_minutes

\* The root of a chain of three items returned the minutes of all three.
C21_Witness ==
  /\ Len(timeTree) = 3
  /\ timeTree[2].parent_id = 1
  /\ timeTree[3].parent_id = 2
  /\ totalTime[1].called
  /\ totalTime[1].value = timeTree[1].estimated_duration_minutes
                            + timeTree[2].estimated_duration_minutes
                            + timeTree[3].estimated_duration_minutes
  /\ totalTime[3].called

\* --------------------------------------------------- statistics claims
\* The number of records that pass a test.
NumberOf(records, Test(_)) ==
  Cardinality({k \in 1..Len(records) : Test(records[k])})

\* Whether the record's chain of parents ends at a record without parent_id
\* within `fuel` steps: the records buildTrainingTree puts into the forest.
RECURSIVE Rooted(_, _, _)
Rooted(records, it, fuel) ==
  \/ it.parent_id = NoId
  \/ /\ fuel > 0
     /\ it.parent_id \in ItemIds(records)
     /\ Rooted(records, ItemWithId(records, it.parent_id), fuel - 1)

InForest(it) == Rooted(userRecords, it, Len(userRecords))

C23_EmptyForestAllZero ==
  (stats.called /\ FetchedForest(userRecords, stats.fetched) = <<>>) =>
    /\ stats.totalItems = 0
    /\ stats.completedItems = 0
    /\ stats.inProgressItems = 0
    /\ stats.completionRate = Whole(0)

\* The fetch failed for a user who has items.
C23_Witness ==
  /\ stats.called
  /\ ~stats.fetched
  /\ Len(userRecords) > 0
  /\ stats.totalItems = 0
  /\ stats.completionRate = Whole(0)

\* ---------------------------------------------------- tree view claims
\* The ids of the ancestors of an item of the input collection.
AncestorsOf(items, id) ==
  {a \in ItemIds(items) : InputReachesUp(items, id, a, Len(items))}

\* The ids of the children a forest node has, in list order.
RECURSIVE ForestNodes(_)
ForestNodes(nodes) ==
  IF nodes = <<>>
    THEN {}
    ELSE {Head(nodes)} \cup ForestNodes(Head(nodes).children)
           \cup ForestNodes(Tail(nodes))

\* C24: for every forest trainingItems$ emits, buildTreeStructure makes one
\* TreeNode for every item of the forest, roots and descendants, with parent
\* the node of the item's parent, depth the number of the item's ancestors
\* and children the nodes of the item's children in order_index order.
C24_OneTreeNodePerItem ==
  stage = "shown" =>
    \A n \in ForestNodes(forest) :
      /\ n.item.id \in DOMAIN treeNodes
      /\ treeNodes[n.item.id].parent = n.item.parent_id
      /\ treeNodes[n.item.id].depth = Cardinality(AncestorsOf(input, n.item.id))
      /\ treeNodes[n.item.id].children =
           [k \in 1..Len(n.children) |-> n.children[k].item.id]

\* ------------------------------------------------------- bulk claims
InsertsFinished ==
  /\ commentRun.sent
  /\ \A i \in 1..Len(commentRun.inserts) : commentRun.inserts[i] # "pending"

CreatedNotifications ==
  {CommentNotifications(commentRun.comment)[i] :
     i \in {k \in 1..Len(commentRun.inserts) : commentRun.inserts[k] = "created"}}

Elements(s) == {s[k] : k \in 1..Len(s)}

\* C27: once every insert of a processCommentNotifications call has finished,
\* failed ones included, the Observable has emitted exactly one array, the
\* notifications that were created, and has completed.
C27_EmitsCreatedOnceAndCompletes ==
  InsertsFinished =>
    /\ commentObserver.complete
    /\ Len(commentObserver.emissions) = 1
    /\ Elements(commentObserver.emissions[1]) = CreatedNotifications

CreationsFinished ==
  /\ importRun.sent
  /\ \A i \in 1..Len(importRun.items) : importRun.creations[i] # "pending"

CreatedInInputOrder ==
  LET all == [i \in 1..Len(importRun.items) |-> i]
      made == SelectSeq(all, LAMBDA i : importRun.creations[i] = "created")
  IN [k \in 1..Len(made) |-> CreatedItem(importRun.items, made[k])]

\* C29: once every creation of an importTrainingItems call has finished, in
\* whatever order, the Observable has emitted exactly once, the created items
\* in input order, and has completed; for every list, the empty one included.
C29_EmitsCreatedOnceAndCompletes ==
  CreationsFinished =>
    /\ importObserver.complete
    /\ importObserver.emissions = <<CreatedInInputOrder>>

\* ------------------------------------------------- notification claims
\* C26: every notification id appears at most once in the list
\* NotificationService holds.
C26_NoDuplicateIds ==
  \A i, j \in 1..Len(notificationsSubject) :
    notificationsSubject[i].id = notificationsSubject[j].id => i = j

\* C30: the unread count the panel displays is the number of unread
\* notifications in the list it displays.
C30_UnreadCountMatchesList ==
  panel.unreadCount = updateUnreadCount(panel.notifications)

\* ------------------------------------------------------ fetch claims
Resolved == {q \in FetchIds : fetches[q].state = "done"}
AllResolved == Started # {} /\ Resolved = Started
LastInitiated == CHOOSE q \in Resolved : \A o \in Resolved : o <= q

NoneFailed == \A q \in Resolved : fetches[q].ok

\* C9 (as stated): once the fetches in flight have resolved, in whatever
\* order, trainingItems$ holds the result of the last-initiated fetch (shown
\* on the runs where every select succeeds).
C9_LastInitiatedWins ==
  (AllResolved /\ NoneFailed) => subject.value = fetches[LastInitiated].value

\* C9 (amended): trainingItems$ holds the result of the fetch that resolved
\* last, whichever was initiated last.
C9_LastResolvedWins ==
  lastResolved # 0 => subject.value = fetches[lastResolved].value

\* Two fetches with different results resolved against their order of
\* initiation.
C9_Witness ==
  /\ AllResolved /\ NoneFailed
  /\ lastResolved # LastInitiated
  /\ fetches[lastResolved].value # fetches[LastInitiated].value
  /\ subject.value = fetches[lastResolved].value

\* ---------------------------------------------------- session claims
\* C25: while nobody is signed in, trainingItems$ holds the empty list,
\* whatever fetches of the previous user resolve in the meantime.
C25_EmptyWhileSignedOut == ~signedIn => subject.value = EmptyList

\* C28: the delivery of a failed fetch leaves the forest held by
\* trainingItems$ as it was.
C28_FailedFetchKeepsForest ==
  [][\A q \in FetchIds :
       (fetches[q].state = "served" /\ fetches'[q].state = "done"
          /\ ~fetches[q].ok)
       => subject'.value = subject.value]_vars

====
